---- MODULE Spec2Model ----
(***************************************************************************)
(* A model of roofig (src/roofig/__init__.py): the FitParameters           *)
(* collection of named fit parameters.                                     *)
(*                                                                         *)
(* The state is the instance __dict__ of one FitParameters object.  The    *)
(* set of tracked names is itself an instance attribute ("param_list"),    *)
(* so it lives in the same dictionary as the parameters.  Names are        *)
(* sequences of one-character strings, so that template formatting and     *)
(* fnmatch work on them character by character.                            *)
(*                                                                         *)
(* The fit engine (ROOT) is an external library.  Its two primitives are   *)
(* modelled by what the calls in the source rely on: RooRealVar(name,      *)
(* title, ...) with one (constant value), two (min, max) or three (value,  *)
(* min, max) numbers, setVal clipping to the range, and RooCategory with   *)
(* defineType refusing a label or an index that is already defined.        *)
(***************************************************************************)
EXTENDS Integers, Sequences, FiniteSets, TLC

VARIABLES
    dict,     \* self.__dict__: attribute name -> stored value
    op,       \* the last operation called, with its arguments
    ret,      \* what it returned (None when it raised)
    err,      \* the exception it raised, "none" when it returned
    warned,   \* the names of the 'warning: overriding' lines it printed
    calls,    \* the calls it made, in call order: add_param <<name, args>>,
              \* and the engine calls of sample_pdf
    pre,      \* self.__dict__ as it was when the operation was called
    steps     \* the number of operations called so far

vars == <<dict, op, ret, err, warned, calls, pre, steps>>

\* The number of operations of one run.
MaxSteps == 3

-----------------------------------------------------------------------------
(* Names *)

NameParamList == <<"p", "a", "r", "a", "m", "_", "l", "i", "s", "t">>
NameR         == <<"r">>
NamePop       == <<"p", "o", "p">>
NameGlob      == <<"g", "l", "o", "b">>
NameA1        == <<"a", "1">>
NameA2        == <<"a", "2">>
NameB1        == <<"b", "1">>
NameFoo       == <<"f", "o", "o">>

\* Class attributes of FitParameters that are not data descriptors: an
\* instance attribute of the same name shadows them.
ClassAttrs == {NamePop, NameGlob}

-----------------------------------------------------------------------------
(* Values *)

None       == [kind |-> "None"]
PyInt(v)   == [kind |-> "int", v |-> v]
PyFloat(v) == [kind |-> "float", v |-> v]
PyBool(v)  == [kind |-> "bool", v |-> v]
NpFloat(v) == [kind |-> "numpy.float64", v |-> v]
PyStr(s)   == [kind |-> "str", v |-> s]
NameSet(S) == [kind |-> "set", names |-> S]
Method     == [kind |-> "method"]

\* RooNumber::infinity(): the range of a variable constructed without one.
Infinity == 1000 * 1000

Min2(a, b) == IF a <= b THEN a ELSE b
Max2(a, b) == IF a >= b THEN a ELSE b

-----------------------------------------------------------------------------
(* The fit engine's primitives, as the source uses them *)

\* RooRealVar(name, title, *args): the numbers after the title select the
\* constructor; any other count matches no overload.
RooRealVarNew(name, args) ==
    CASE Len(args) = 1 ->
           [ok |-> TRUE, name |-> name, val |-> args[1],
            min |-> 0 - Infinity, max |-> Infinity, const |-> TRUE]
      [] Len(args) = 2 ->
           [ok |-> TRUE, name |-> name, val |-> (args[1] + args[2]) \div 2,
            min |-> args[1], max |-> args[2], const |-> FALSE]
      [] Len(args) = 3 ->
           [ok |-> TRUE, name |-> name,
            val |-> Max2(args[2], Min2(args[1], args[3])),
            min |-> args[2], max |-> args[3], const |-> FALSE]
      [] OTHER -> [ok |-> FALSE]

\* FitParameters.RealVar(name, *args): the wrapper around a new RooRealVar.
\* id is the identity of the object.
RealVarNew(id, name, args) ==
    LET v == RooRealVarNew(name, args)
    IN  IF v.ok
        THEN [ok |-> TRUE,
              obj |-> [kind |-> "RealVar", id |-> id, name |-> v.name,
                       val |-> v.val, min |-> v.min, max |-> v.max,
                       const |-> v.const]]
        ELSE [ok |-> FALSE]

\* RealVar.setVal(value), forwarded to RooRealVar.setVal by __getattr__: the
\* same object with the value set, clipped to the range.
SetVal(param, value) ==
    [param EXCEPT !.val = Max2(param.min, Min2(value, param.max))]

\* param.var: the RooRealVar inside a RealVar.
VarOf(param) ==
    [kind |-> "RooRealVar", id |-> param.id, name |-> param.name,
     val |-> param.val, min |-> param.min, max |-> param.max,
     const |-> param.const]

-----------------------------------------------------------------------------
(* Attribute lookup on the FitParameters instance *)

\* What iterating a value yields: the members of a set, the characters of a
\* string; nothing else that is stored here is iterable.
Iterable(v) == v.kind \in {"set", "str"}
IterItems(v) ==
    IF v.kind = "set" THEN v.names
    ELSE {<<v.v[i]>> : i \in 1..Len(v.v)}

\* The property r.  Every tracked name is looked up with getattr: looking up
\* "r" itself evaluates the property again, without end.
PropR(d) ==
    IF NameParamList \notin DOMAIN d THEN [err |-> "AttributeError"]
    ELSE IF ~Iterable(d[NameParamList]) THEN [err |-> "TypeError"]
    ELSE LET names == IterItems(d[NameParamList])
         IN  IF NameR \in names THEN [err |-> "RecursionError"]
             ELSE IF \E n \in names : n \notin DOMAIN d /\ n \notin ClassAttrs
                  THEN [err |-> "AttributeError"]
             ELSE LET val(n) == IF n \in DOMAIN d THEN d[n] ELSE Method
                      kept == {n \in names :
                                 val(n).kind \in {"RealVar", "RooCategory"}}
                  IN  [err |-> "none",
                       val |-> [kind |-> "bag",
                                attrs |-> [n \in kept |->
                                    IF d[n].kind = "RealVar"
                                    THEN VarOf(d[n]) ELSE d[n]]]]

\* getattr(self, name): the property first (a data descriptor), then the
\* instance dictionary, then the other class attributes.
GetAttr(d, name) ==
    IF name = NameR THEN PropR(d)
    ELSE IF name \in DOMAIN d THEN [err |-> "none", val |-> d[name]]
    ELSE IF name \in ClassAttrs THEN [err |-> "none", val |-> Method]
    ELSE [err |-> "AttributeError"]

\* hasattr(self, name): False on AttributeError; any other error propagates.
HasAttr(d, name) ==
    LET g == GetAttr(d, name)
    IN  IF g.err = "none" THEN [err |-> "none", has |-> TRUE]
        ELSE IF g.err = "AttributeError" THEN [err |-> "none", has |-> FALSE]
        ELSE [err |-> g.err]

\* object.__setattr__(self, name, value): the property r has no setter.
ObjectSetAttr(d, name, value) ==
    IF name = NameR THEN [d |-> d, err |-> "AttributeError"]
    ELSE [d |-> [n \in DOMAIN d \cup {name} |->
                    IF n = name THEN value ELSE d[n]],
          err |-> "none"]

\* The test of __setattr__ for the in-place update.
IsPlainNumber(value) == value.kind \in {"int", "float"}

\* FitParameters.__setattr__(self, name, value)
SetAttr(d, name, value) ==
    LET h == HasAttr(d, name)
    IN  IF h.err # "none" THEN [d |-> d, err |-> h.err, warned |-> <<>>]
        ELSE IF h.has /\ IsPlainNumber(value)
        THEN LET g == GetAttr(d, name)
             IN  IF g.val.kind \in {"RealVar", "RooRealVar"}
                 THEN [d |-> [d EXCEPT ![name] = SetVal(@, value.v)],
                       err |-> "none", warned |-> <<>>]
                 ELSE [d |-> d, err |-> "AttributeError", warned |-> <<>>]
        ELSE LET s == ObjectSetAttr(d, name, value)
             IN  [d |-> s.d, err |-> s.err,
                  warned |-> IF h.has THEN <<name>> ELSE <<>>]

\* self.param_list.add(name)
ParamListAdd(d, name) ==
    IF NameParamList \notin DOMAIN d THEN [d |-> d, err |-> "AttributeError"]
    ELSE IF d[NameParamList].kind # "set"
    THEN [d |-> d, err |-> "AttributeError"]
    ELSE [d |-> [d EXCEPT ![NameParamList].names = @ \cup {name}],
          err |-> "none"]

\* The identity of a newly constructed object: one that no stored object has.
UsedIds(d) ==
    {d[n].id : n \in {m \in DOMAIN d :
                         d[m].kind \in {"RealVar", "RooRealVar", "RooCategory"}}}
FreshId(d) ==
    CHOOSE i \in 1..(Cardinality(UsedIds(d)) + 1) :
        /\ i \notin UsedIds(d)
        /\ \A j \in 1..(i - 1) : j \in UsedIds(d)

\* add_param as it would be if a scalar already stored under the name were
\* updated in place.
AddParamOp_InPlace(d, name, args) ==
    LET param == RealVarNew(FreshId(d), name, args)
    IN  IF ~param.ok THEN [d |-> d, err |-> "TypeError", warned |-> <<>>]
        ELSE LET a == ParamListAdd(d, name)
             IN  IF a.err # "none"
                 THEN [d |-> d, err |-> a.err, warned |-> <<>>]
                 ELSE IF name \in DOMAIN a.d /\ a.d[name].kind = "RealVar"
                 THEN [d |-> [a.d EXCEPT ![name] = SetVal(@, param.obj.val)],
                       err |-> "none", warned |-> <<>>]
                 ELSE SetAttr(a.d, name, param.obj)

\* add_param as it would be if it raised ConfigurationError itself when the
\* variable cannot be constructed.
AddParamOp_ConfigurationError(d, name, args) ==
    LET param == RealVarNew(FreshId(d), name, args)
    IN  IF ~param.ok
        THEN [d |-> d, err |-> "ConfigurationError", warned |-> <<>>]
        ELSE LET a == ParamListAdd(d, name)
             IN  IF a.err # "none"
                 THEN [d |-> d, err |-> a.err, warned |-> <<>>]
                 ELSE SetAttr(a.d, name, param.obj)

\* FitParameters.add_param(self, name, *args)
AddParamOp(d, name, args) ==
    LET param == RealVarNew(FreshId(d), name, args)
    IN  IF ~param.ok THEN [d |-> d, err |-> "TypeError", warned |-> <<>>]
        ELSE LET a == ParamListAdd(d, name)
             IN  IF a.err # "none"
                 THEN [d |-> d, err |-> a.err, warned |-> <<>>]
                 ELSE SetAttr(a.d, name, param.obj)

-----------------------------------------------------------------------------
(* expand_params: itertools.product and str.format *)

PyList(items) == [kind |-> "list", items |-> items]

Digit == <<"0", "1", "2", "3", "4", "5", "6", "7", "8", "9">>

\* str(n) of an integer
RECURSIVE IntToStr(_)
IntToStr(n) ==
    IF n < 0 THEN <<"-">> \o IntToStr(0 - n)
    ELSE IF n < 10 THEN <<Digit[n + 1]>>
    ELSE IntToStr(n \div 10) \o <<Digit[(n % 10) + 1]>>

\* What format() writes for a value without a format specification.
StrOf(v) == IF v.kind = "int" THEN IntToStr(v.v) ELSE v.v

RECURSIVE Flatten(_)
Flatten(ss) == IF Len(ss) = 0 THEN <<>> ELSE Head(ss) \o Flatten(Tail(ss))

\* The product with the first list varying fastest.
RECURSIVE Product_FirstFastest(_)
Product_FirstFastest(lists) ==
    IF Len(lists) = 0 THEN << <<>> >>
    ELSE LET rest == Product_FirstFastest(Tail(lists))
             first == Head(lists)
         IN  Flatten([j \in 1..Len(rest) |->
                        [i \in 1..Len(first) |-> <<first[i]>> \o rest[j]]])

\* itertools.product(*lists): every combination, the last list varying
\* fastest.
RECURSIVE Product(_)
Product(lists) ==
    IF Len(lists) = 0 THEN << <<>> >>
    ELSE LET rest == Product(Tail(lists))
             first == Head(lists)
         IN  Flatten([i \in 1..Len(first) |->
                        [j \in 1..Len(rest) |-> <<first[i]>> \o rest[j]]])

\* The index of the first "}" of t at or after i, 0 when there is none.
RECURSIVE CloseBrace(_, _)
CloseBrace(t, i) ==
    IF i > Len(t) THEN 0
    ELSE IF t[i] = "}" THEN i
    ELSE CloseBrace(t, i + 1)

\* template.format(**{n: v for n, v in zip(names, combo)}), from position i:
\* literal text, "{{" and "}}", and replacement fields that are plain keyword
\* names (no conversion, no format specification).
RECURSIVE FormatFrom(_, _, _, _)
FormatFrom(t, i, names, combo) ==
    IF i > Len(t) THEN [err |-> "none", s |-> <<>>]
    ELSE IF t[i] = "{" /\ i < Len(t) /\ t[i + 1] = "{"
    THEN LET rest == FormatFrom(t, i + 2, names, combo)
         IN  IF rest.err # "none" THEN rest
             ELSE [err |-> "none", s |-> <<"{">> \o rest.s]
    ELSE IF t[i] = "}" /\ i < Len(t) /\ t[i + 1] = "}"
    THEN LET rest == FormatFrom(t, i + 2, names, combo)
         IN  IF rest.err # "none" THEN rest
             ELSE [err |-> "none", s |-> <<"}">> \o rest.s]
    ELSE IF t[i] = "}" THEN [err |-> "ValueError"]
    ELSE IF t[i] = "{"
    THEN LET j == CloseBrace(t, i + 1)
             field == SubSeq(t, i + 1, j - 1)
         IN  IF j = 0 THEN [err |-> "ValueError"]
             ELSE IF field = <<>> THEN [err |-> "IndexError"]
             ELSE IF ~\E k \in 1..Min2(Len(names), Len(combo)) : names[k] = field
             THEN [err |-> "KeyError"]
             ELSE LET k == CHOOSE k \in 1..Min2(Len(names), Len(combo)) :
                                names[k] = field
                      rest == FormatFrom(t, j + 1, names, combo)
                  IN  IF rest.err # "none" THEN rest
                      ELSE [err |-> "none", s |-> StrOf(combo[k]) \o rest.s]
    ELSE LET rest == FormatFrom(t, i + 1, names, combo)
         IN  IF rest.err # "none" THEN rest
             ELSE [err |-> "none", s |-> <<t[i]>> \o rest.s]

Format(t, names, combo) == FormatFrom(t, 1, names, combo)

\* The loop of expand_params from the k-th combination on: it stops at the
\* first call that raises.  acc is what the calls so far have done.
RECURSIVE ExpandFrom(_, _, _, _, _, _)
ExpandFrom(acc, k, combos, template, args, names) ==
    IF k > Len(combos) \/ acc.err # "none" THEN acc
    ELSE LET f == Format(template, names, combos[k])
         IN  IF f.err # "none" THEN [acc EXCEPT !.err = f.err]
             ELSE LET a == AddParamOp(acc.d, f.s, args)
                  IN  ExpandFrom([d |-> a.d, err |-> a.err,
                                  warned |-> acc.warned \o a.warned,
                                  calls |-> Append(acc.calls, <<f.s, args>>)],
                                 k + 1, combos, template, args, names)

\* FitParameters.expand_params(self, template, *args, **kwargs); kwargs is
\* the sequence of <<axis name, list of values>> in the order given.
ExpandParamsOp(d, template, args, kwargs) ==
    LET names  == [i \in 1..Len(kwargs) |-> kwargs[i][1]]
        values == [i \in 1..Len(kwargs) |-> kwargs[i][2]]
    IN  ExpandFrom([d |-> d, err |-> "none", warned |-> <<>>, calls |-> <<>>],
                   1, Product(values), template, args, names)

-----------------------------------------------------------------------------
(* add_observable *)

RECURSIVE SeqMin(_)
SeqMin(xs) == IF Len(xs) = 1 THEN xs[1] ELSE Min2(xs[1], SeqMin(Tail(xs)))
RECURSIVE SeqMax(_)
SeqMax(xs) == IF Len(xs) = 1 THEN xs[1] ELSE Max2(xs[1], SeqMax(Tail(xs)))

NeitherGiven_Either(args, values) == values = None \/ Len(args) = 0

\* The test of add_observable: values is None and not args.
NeitherGiven(args, values) == values = None /\ Len(args) = 0

\* add_observable as it would be if explicit construction arguments came
\* before the sample.
AddObservableOp_ArgsFirst(d, name, args, values) ==
    IF NeitherGiven(args, values)
    THEN [d |-> d, err |-> "ConfigurationError", warned |-> <<>>,
          calls |-> <<>>]
    ELSE IF Len(args) > 0
    THEN LET r == AddParamOp(d, name, args)
         IN  [d |-> r.d, err |-> r.err, warned |-> r.warned,
              calls |-> << <<name, args>> >>]
    ELSE IF Len(values.items) = 0
    THEN [d |-> d, err |-> "ValueError", warned |-> <<>>, calls |-> <<>>]
    ELSE LET a == <<SeqMin(values.items), SeqMax(values.items)>>
             r == AddParamOp(d, name, a)
         IN  [d |-> r.d, err |-> r.err, warned |-> r.warned,
              calls |-> << <<name, a>> >>]

\* FitParameters.add_observable(self, name, *args, values=None); values is
\* None or a list of numbers.  np.min of an empty list raises ValueError.
AddObservableOp(d, name, args, values) ==
    IF NeitherGiven(args, values)
    THEN [d |-> d, err |-> "ConfigurationError", warned |-> <<>>,
          calls |-> <<>>]
    ELSE IF values # None
    THEN IF Len(values.items) = 0
         THEN [d |-> d, err |-> "ValueError", warned |-> <<>>, calls |-> <<>>]
         ELSE LET a == <<SeqMin(values.items), SeqMax(values.items)>>
                  r == AddParamOp(d, name, a)
              IN  [d |-> r.d, err |-> r.err, warned |-> r.warned,
                   calls |-> << <<name, a>> >>]
    ELSE LET r == AddParamOp(d, name, args)
         IN  [d |-> r.d, err |-> r.err, warned |-> r.warned,
              calls |-> << <<name, args>> >>]

-----------------------------------------------------------------------------
(* add_category *)

\* pd.unique(values): the distinct values in order of first appearance.
RECURSIVE Unique(_)
Unique(xs) ==
    IF Len(xs) = 0 THEN <<>>
    ELSE LET front == Unique(SubSeq(xs, 1, Len(xs) - 1))
             last  == xs[Len(xs)]
         IN  IF \E i \in 1..Len(front) : front[i] = last
             THEN front ELSE Append(front, last)

DigitValue(c) == CHOOSE k \in 0..9 : Digit[k + 1] = c
IsDigit(c) == \E k \in 0..9 : Digit[k + 1] = c

RECURSIVE DigitsToInt(_)
DigitsToInt(s) ==
    IF Len(s) = 0 THEN 0
    ELSE 10 * DigitsToInt(SubSeq(s, 1, Len(s) - 1)) + DigitValue(s[Len(s)])

\* int(val): an integer as it is, a string of decimal digits parsed, any
\* other string a ValueError.
IntOf(v) ==
    IF v.kind = "int" THEN [err |-> "none", v |-> v.v]
    ELSE IF Len(v.v) > 0 /\ \A i \in 1..Len(v.v) : IsDigit(v.v[i])
    THEN [err |-> "none", v |-> DigitsToInt(v.v)]
    ELSE [err |-> "ValueError"]

\* RooCategory.defineType(label, index): refused, with no exception, when
\* the label or the index is already defined.
DefineType(cat, label, index) ==
    IF \E t \in cat.types : t[1] = label \/ t[2] = index THEN cat
    ELSE [cat EXCEPT !.types = @ \cup {<<label, index>>}]

\* The loop over pd.unique(values) from the k-th value on.
RECURSIVE DefineFrom(_, _, _)
DefineFrom(cat, vals, k) ==
    IF k > Len(vals) THEN [err |-> "none", cat |-> cat]
    ELSE LET i == IntOf(vals[k])
         IN  IF i.err # "none" THEN [err |-> i.err]
             ELSE DefineFrom(DefineType(cat, StrOf(vals[k]), i.v), vals, k + 1)

\* FitParameters.add_category(self, name, values)
AddCategoryOp(d, name, values) ==
    LET cat == [kind |-> "RooCategory", id |-> FreshId(d), name |-> name,
                types |-> {}]
        c   == DefineFrom(cat, Unique(values), 1)
    IN  IF c.err # "none" THEN [d |-> d, err |-> c.err, warned |-> <<>>]
        ELSE LET a == ParamListAdd(d, name)
             IN  IF a.err # "none"
                 THEN [d |-> d, err |-> a.err, warned |-> <<>>]
                 ELSE SetAttr(a.d, name, c.cat)

-----------------------------------------------------------------------------
(* pop *)

\* key in value: membership in a set, substring of a string.
Contains(v, key) ==
    IF v.kind = "set" THEN key \in v.names
    ELSE \E i \in 1..(Len(v.v) + 1) : SubSeq(v.v, i, i + Len(key) - 1) = key

\* self.__dict__.pop(key, default)
DictPop(d, key, default) ==
    IF key \in DOMAIN d
    THEN [d |-> [n \in DOMAIN d \ {key} |-> d[n]], err |-> "none",
          ret |-> d[key]]
    ELSE [d |-> d, err |-> "none", ret |-> default]

\* FitParameters.pop(self, key, default_value=None).  Only a set has
\* remove().
PopOp(d, key, default) ==
    IF NameParamList \notin DOMAIN d
    THEN [d |-> d, err |-> "AttributeError", ret |-> None]
    ELSE IF ~Iterable(d[NameParamList])
    THEN [d |-> d, err |-> "TypeError", ret |-> None]
    ELSE IF ~Contains(d[NameParamList], key)
    THEN DictPop(d, key, default)
    ELSE IF d[NameParamList].kind # "set"
    THEN [d |-> d, err |-> "AttributeError", ret |-> None]
    ELSE DictPop([d EXCEPT ![NameParamList].names = @ \ {key}], key, default)

-----------------------------------------------------------------------------
(* glob *)

\* The index of the "]" that closes the bracket opened at j - 1, as
\* fnmatch.translate finds it: a leading "!" and a "]" right after it do not
\* close; 0 when the bracket is never closed.
RECURSIVE CloseBracketFrom(_, _)
CloseBracketFrom(p, k) ==
    IF k > Len(p) THEN 0
    ELSE IF p[k] = "]" THEN k
    ELSE CloseBracketFrom(p, k + 1)

CloseBracket(p, j) ==
    LET k1 == IF j <= Len(p) /\ p[j] = "!" THEN j + 1 ELSE j
        k2 == IF k1 <= Len(p) /\ p[k1] = "]" THEN k1 + 1 ELSE k1
    IN  CloseBracketFrom(p, k2)

\* fnmatch(name, pat) on a POSIX system (normcase is the identity), name
\* from position i against pat from position j: "*", "?", "[seq]", "[!seq]"
\* (seq a plain list of characters) and literal characters.
RECURSIVE MatchFrom(_, _, _, _)
MatchFrom(n, i, p, j) ==
    IF j > Len(p) THEN i > Len(n)
    ELSE IF p[j] = "*"
    THEN MatchFrom(n, i, p, j + 1) \/ (i <= Len(n) /\ MatchFrom(n, i + 1, p, j))
    ELSE IF p[j] = "?"
    THEN i <= Len(n) /\ MatchFrom(n, i + 1, p, j + 1)
    ELSE IF p[j] = "[" /\ CloseBracket(p, j + 1) # 0
    THEN LET k      == CloseBracket(p, j + 1)
             negate == p[j + 1] = "!"
             from   == IF negate THEN j + 2 ELSE j + 1
             chars  == {p[m] : m \in from..(k - 1)}
         IN  /\ i <= Len(n)
             /\ (n[i] \in chars) # negate
             /\ MatchFrom(n, i + 1, p, k + 1)
    ELSE i <= Len(n) /\ n[i] = p[j] /\ MatchFrom(n, i + 1, p, j + 1)

FnMatch(name, pat) == MatchFrom(name, 1, pat, 1)

\* The names glob looks up: those of self.param_list that match.
GlobMatched(d, expr) ==
    {n \in IterItems(d[NameParamList]) : FnMatch(n, expr)}

\* The orders in which a set can be iterated.
Orders(S) ==
    {f \in [1..Cardinality(S) -> S] :
        \A i, j \in 1..Cardinality(S) : i # j => f[i] # f[j]}

\* FitParameters.glob(self, expr) with the matching names iterated in the
\* order o: the stored values, one per matching name.
GlobList(d, expr, o) ==
    PyList([i \in 1..Cardinality(GlobMatched(d, expr)) |->
              GetAttr(d, o[i]).val])

\* The errors the lookups of glob can raise.
GlobErrors(d, expr) ==
    {GetAttr(d, n).err : n \in GlobMatched(d, expr)} \ {"none"}

-----------------------------------------------------------------------------
(* __repr__ *)

\* The characters of the names, in code-point order: str comparison, and so
\* sorted(), compares code points.
CodePoints ==
    <<"0", "1", "2", "3", "4", "5", "6", "7", "8", "9", "_",
      "a", "b", "c", "d", "e", "f", "g", "h", "i", "j", "k", "l", "m",
      "n", "o", "p", "q", "r", "s", "t", "u", "v", "w", "x", "y", "z">>
Ord(c) == CHOOSE i \in 1..Len(CodePoints) : CodePoints[i] = c

\* a < b for two strings
RECURSIVE StrLess(_, _)
StrLess(a, b) ==
    IF Len(b) = 0 THEN FALSE
    ELSE IF Len(a) = 0 THEN TRUE
    ELSE IF a[1] = b[1] THEN StrLess(Tail(a), Tail(b))
    ELSE Ord(a[1]) < Ord(b[1])

\* sorted(list(S)) for a set of strings
RECURSIVE Sorted(_)
Sorted(S) ==
    IF S = {} THEN <<>>
    ELSE LET least == CHOOSE a \in S : \A b \in S \ {a} : StrLess(a, b)
         IN  <<least>> \o Sorted(S \ {least})

RECURSIVE Pow10(_)
Pow10(e) == IF e = 0 THEN 1 ELSE 10 * Pow10(e - 1)

\* The decimal exponent of n >= 1: the number of its digits, less one.
RECURSIVE Exponent(_)
Exponent(n) == IF n < 10 THEN 0 ELSE 1 + Exponent(n \div 10)

\* f'{x:.2g}' for a float x of integral value: two significant digits, ties
\* to even; fixed notation below 100, else exponent notation with a mantissa
\* stripped of a trailing zero and an exponent of at least two digits.
FormatG2(x) ==
    LET n    == IF x < 0 THEN 0 - x ELSE x
        sign == IF x < 0 THEN <<"-">> ELSE <<>>
    IN  IF n < 100 THEN sign \o IntToStr(n)
        ELSE LET e     == Exponent(n)
                 scale == Pow10(e - 1)
                 q     == n \div scale
                 rem   == n % scale
                 up    == 2 * rem > scale \/ (2 * rem = scale /\ q % 2 = 1)
                 q1    == IF up THEN q + 1 ELSE q
                 m     == IF q1 = 100 THEN 10 ELSE q1
                 e1    == IF q1 = 100 THEN e + 1 ELSE e
                 frac  == IF m % 10 = 0 THEN <<>>
                          ELSE <<".", Digit[(m % 10) + 1]>>
                 pad   == IF e1 < 10 THEN <<"0">> ELSE <<>>
             IN  sign \o <<Digit[(m \div 10) + 1]>> \o frac
                      \o <<"e", "+">> \o pad \o IntToStr(e1)

\* The values that have isConstant(): the wrapper forwards it to its
\* variable (__getattr__), the engine's variable and category have it.
HasIsConstant(v) == v.kind \in {"RealVar", "RooRealVar", "RooCategory"}
IsConstant(v) == v.kind \in {"RealVar", "RooRealVar"} /\ v.const

\* The text f'Parameter collection\n{count} parameters:'
ReprHeader(count) ==
    <<"P", "a", "r", "a", "m", "e", "t", "e", "r", " ",
      "c", "o", "l", "l", "e", "c", "t", "i", "o", "n", "\n">>
    \o IntToStr(count)
    \o <<" ", "p", "a", "r", "a", "m", "e", "t", "e", "r", "s", ":">>

\* What the loop of __repr__ appends for one looked-up parameter: the name,
\* then const for a constant one, min and max for one whose type is the
\* engine's RooRealVar itself, nothing for any other.
ReprLine(p, parameter) ==
    <<"\n">> \o p
    \o (IF IsConstant(parameter) THEN <<"\t", "c", "o", "n", "s", "t">>
        ELSE IF parameter.kind = "RooRealVar"
        THEN <<"\t">> \o FormatG2(parameter.min)
             \o <<"\t">> \o FormatG2(parameter.max)
        ELSE <<>>)

\* The loop of __repr__ over the sorted names from the k-th on: it stops at
\* the first lookup or isConstant() that raises.
RECURSIVE ReprFrom(_, _, _, _)
ReprFrom(d, names, k, string) ==
    IF k > Len(names) THEN [err |-> "none", s |-> string]
    ELSE LET g == GetAttr(d, names[k])
         IN  IF g.err # "none" THEN [err |-> g.err]
             ELSE IF ~HasIsConstant(g.val) THEN [err |-> "AttributeError"]
             ELSE ReprFrom(d, names, k + 1,
                           string \o ReprLine(names[k], g.val))

\* __repr__ as it would be if it kept the names it has rendered out of
\* param_list.
ReprOp_Consuming(d) ==
    IF ~(NameParamList \in DOMAIN d /\ d[NameParamList].kind = "set")
    THEN [d |-> d, err |-> "TypeError", ret |-> None]
    ELSE [d |-> [d EXCEPT ![NameParamList].names = {}], err |-> "none",
          ret |-> PyStr(ReprHeader(Cardinality(d[NameParamList].names)))]

\* FitParameters.__repr__(self).  len() needs a set or a string.
ReprOp(d) ==
    IF NameParamList \notin DOMAIN d
    THEN [d |-> d, err |-> "AttributeError", ret |-> None]
    ELSE IF ~Iterable(d[NameParamList])
    THEN [d |-> d, err |-> "TypeError", ret |-> None]
    ELSE LET pl    == d[NameParamList]
             count == IF pl.kind = "set" THEN Cardinality(pl.names)
                      ELSE Len(pl.v)
             res   == ReprFrom(d, Sorted(IterItems(pl)), 1, ReprHeader(count))
         IN  IF res.err # "none" THEN [d |-> d, err |-> res.err, ret |-> None]
             ELSE [d |-> d, err |-> "none", ret |-> PyStr(res.s)]

-----------------------------------------------------------------------------
(* Plotter.sample_pdf *)

\* The display curves of the densities sampled: curve.interpolate(x) for a
\* variable of lower bound lo.
Flat0 == "flat0"
Flat1 == "flat1"
Rise  == "rise"
Interpolate(curve, x, lo) ==
    CASE curve = Flat0 -> 0
      [] curve = Flat1 -> 1
      [] curve = Rise  -> IF x <= lo THEN 0 ELSE 1

\* linspace as it would be without the end point: n steps of (b - a) / n.
Linspace_NoEndpoint(a, b, n) ==
    [i \in 1..n |-> a + ((i - 1) * (b - a)) \div n]

\* np.linspace(a, b, n) for n >= 0: n evenly spaced points, the last one b.
\* (The calls below keep b - a a multiple of n - 1.)
Linspace(a, b, n) ==
    [i \in 1..n |-> IF n = 1 THEN a
                    ELSE IF i = n THEN b
                    ELSE a + ((i - 1) * (b - a)) \div (n - 1)]

\* Twice trapz(ys, xs): the sum of (x[i+1] - x[i]) * (y[i] + y[i+1]); zero
\* for fewer than two points.
RECURSIVE Trapz2From(_, _, _)
Trapz2From(ys, xs, i) ==
    IF i >= Len(xs) THEN 0
    ELSE (xs[i + 1] - xs[i]) * (ys[i] + ys[i + 1])
         + Trapz2From(ys, xs, i + 1)
Trapz2(ys, xs) == Trapz2From(ys, xs, 1)

\* Floating-point numbers: a quotient num / den with den > 0, or one of the
\* values a division by zero yields.
Float(num, den) == [kind |-> "float64", num |-> num, den |-> den]
NaN    == [kind |-> "float64", special |-> "nan"]
PosInf == [kind |-> "float64", special |-> "inf"]
NegInf == [kind |-> "float64", special |-> "-inf"]
IsFinite(y) == "num" \in DOMAIN y

\* y / (integral2 / 2) for an integer y, as numpy divides float64 arrays:
\* a division by zero raises nothing and yields nan for 0 / 0, an infinity of
\* the sign of y otherwise.
DivideByIntegral(y, integral2) ==
    IF integral2 = 0
    THEN IF y = 0 THEN NaN ELSE IF y > 0 THEN PosInf ELSE NegInf
    ELSE IF integral2 > 0 THEN Float(2 * y, integral2)
    ELSE Float(0 - 2 * y, 0 - integral2)

\* y * norm for an integer norm
Times(y, norm) ==
    IF IsFinite(y) THEN Float(y.num * norm, y.den)
    ELSE IF y = NaN \/ norm = 0 THEN NaN
    ELSE IF (y = PosInf) = (norm > 0) THEN PosInf
    ELSE NegInf

\* The two arrays sample_pdf returns.
Arrays(xs, ys) == [kind |-> "arrays", xs |-> xs, ys |-> ys]

\* The loop of sample_pdf from the k-th point on: variable.setVal(x), then
\* curve.interpolate(x).
RECURSIVE SampleFrom(_, _, _, _, _)
SampleFrom(acc, xs, k, curve, lo) ==
    IF k > Len(xs) THEN acc
    ELSE SampleFrom([var   |-> SetVal(acc.var, xs[k]),
                     ys    |-> Append(acc.ys, Interpolate(curve, xs[k], lo)),
                     calls |-> acc.calls \o << <<"setVal", xs[k]>>,
                                               <<"interpolate", xs[k]>> >>],
                    xs, k + 1, curve, lo)

\* The normalisation of sample_pdf: ys /= integral; ys *= norm.
Normalise(ys, xs, norm) ==
    [i \in 1..Len(ys) |->
        Times(DivideByIntegral(ys[i], Trapz2(ys, xs)), norm.v)]

\* sample_pdf as it would be if it restored the value of the variable before
\* it returns.
SamplePdfOp_Restoring(d, name, sampling_steps, norm, curve) ==
    LET variable == d[name]
    IN  IF variable.kind \notin {"RealVar", "RooRealVar"}
        THEN [d |-> d, err |-> "AttributeError", ret |-> None, calls |-> <<>>]
        ELSE IF sampling_steps < 0
        THEN [d |-> d, err |-> "ValueError", ret |-> None,
              calls |-> << <<"plotOn">> >>]
        ELSE LET xs  == Linspace(variable.min, variable.max, sampling_steps)
                 res == SampleFrom([var |-> variable, ys |-> <<>>,
                                    calls |-> << <<"plotOn">> >>],
                                   xs, 1, curve, variable.min)
                 ys  == IF norm # None THEN Normalise(res.ys, xs, norm)
                        ELSE [i \in 1..Len(res.ys) |-> Float(res.ys[i], 1)]
             IN  [d |-> d, err |-> "none",
                  ret |-> Arrays(xs, ys), calls |-> res.calls]

\* Plotter(sampling_steps).sample_pdf(pdf, variable, norm), variable being
\* the parameter stored under name and curve the display curve of pdf.
\* Only a scalar has frame(), getMin(), getMax() and setVal(); linspace
\* refuses a negative number of samples.
SamplePdfOp(d, name, sampling_steps, norm, curve) ==
    LET variable == d[name]
    IN  IF variable.kind \notin {"RealVar", "RooRealVar"}
        THEN [d |-> d, err |-> "AttributeError", ret |-> None, calls |-> <<>>]
        ELSE IF sampling_steps < 0
        THEN [d |-> d, err |-> "ValueError", ret |-> None,
              calls |-> << <<"plotOn">> >>]
        ELSE LET xs  == Linspace(variable.min, variable.max, sampling_steps)
                 res == SampleFrom([var |-> variable, ys |-> <<>>,
                                    calls |-> << <<"plotOn">> >>],
                                   xs, 1, curve, variable.min)
                 ys  == IF norm # None THEN Normalise(res.ys, xs, norm)
                        ELSE [i \in 1..Len(res.ys) |-> Float(res.ys[i], 1)]
             IN  [d |-> [d EXCEPT ![name] = res.var], err |-> "none",
                  ret |-> Arrays(xs, ys), calls |-> res.calls]

-----------------------------------------------------------------------------
(* The calls made on the collection *)

NameC1 == <<"c", "1">>
NameZz == <<"z", "z">>

\* add_param(name, *args)
AddParamInputs ==
    { <<NameA1, <<2>>>>, <<NameA1, <<4>>>>, <<NameA1, <<>>>>,
      <<NameB1, <<6, 0, 4>>>>,
      <<NameR, <<2>>>>, <<NamePop, <<2>>>>, <<NameParamList, <<2>>>> }

\* A parameter object the caller constructs and assigns.
CallerRealVar(d, name) == RealVarNew(FreshId(d), name, <<2>>).obj

\* An engine variable the caller constructs and assigns without the wrapper:
\* RooRealVar(name, name, 0, 120).
CallerRooRealVar(d, name) ==
    VarOf(RealVarNew(FreshId(d), name, <<0, 120>>).obj)

\* self.<name> = value
SetAttrInputs(d) ==
    { <<NameA1, PyInt(3)>>, <<NameA1, PyBool(1)>>, <<NameA1, NpFloat(3)>>,
      <<NameA1, PyStr(<<"s">>)>>, <<NameA1, CallerRealVar(d, NameA1)>>,
      <<NameA1, CallerRooRealVar(d, NameA1)>>,
      <<NameB1, PyFloat(9)>>,
      <<NameFoo, PyStr(<<"s">>)>>, <<NameFoo, CallerRealVar(d, NameFoo)>>,
      <<NameR, PyStr(<<"s">>)>>, <<NameParamList, PyInt(3)>> }

AxisI == <<"i">>
AxisJ == <<"j">>
AxisK == <<"k">>

\* expand_params(template, *args, **kwargs)
ExpandInputs ==
    { \* a1, a2
      <<<<"a", "{", "i", "}">>, <<2>>, << <<AxisI, <<PyInt(1), PyInt(2)>>>> >> >>,
      \* a1, a2, b1, b2
      <<<<"{", "k", "}", "{", "i", "}">>, <<2>>,
        << <<AxisK, <<PyStr(<<"a">>), PyStr(<<"b">>)>>>>,
           <<AxisI, <<PyInt(1), PyInt(2)>>>> >> >>,
      \* an axis the template does not use: a1, a1, a2, a2
      <<<<"a", "{", "i", "}">>, <<2>>,
        << <<AxisI, <<PyInt(1), PyInt(2)>>>>,
           <<AxisJ, <<PyStr(<<"x">>), PyStr(<<"y">>)>>>> >> >>,
      \* two values that format alike: a1, a1
      <<<<"a", "{", "i", "}">>, <<4>>,
        << <<AxisI, <<PyInt(1), PyStr(<<"1">>)>>>> >> >>,
      \* no construction arguments
      <<<<"a", "{", "i", "}">>, <<>>, << <<AxisI, <<PyInt(1), PyInt(2)>>>> >> >>,
      \* a field that is no axis
      <<<<"a", "{", "z", "}">>, <<2>>, << <<AxisI, <<PyInt(1)>>>> >> >>,
      \* no axis at all: the template itself
      <<NameB1, <<0, 4>>, <<>> >>,
      \* the name of the collection's own attribute
      <<NameParamList, <<2>>, <<>> >>,
      \* a1, then r
      <<<<"{", "i", "}">>, <<2>>,
        << <<AxisI, <<PyStr(NameA1), PyStr(NameR)>>>> >> >> }

\* add_observable(name, *args, values=...)
AddObservableInputs ==
    { <<NameB1, <<>>, None>>, <<NameB1, <<2>>, None>>,
      <<NameB1, <<>>, PyList(<<3, 1, 5>>)>>,
      <<NameB1, <<2>>, PyList(<<3, 1, 5>>)>>,
      <<NameB1, <<2>>, PyList(<<>>)>>,
      <<NameB1, <<1, 2, 3, 4>>, None>> }

\* add_category(name, values)
AddCategoryInputs ==
    { <<NameC1, <<PyInt(1), PyInt(2), PyInt(1)>>>>,
      <<NameC1, <<PyInt(1), PyStr(<<"x">>)>>>>,
      <<NameA1, <<PyInt(2), PyStr(<<"2">>)>>>> }

\* pop(key, default)
PopInputs ==
    { <<NameA1, PyInt(0)>>, <<NameA2, PyInt(0)>>, <<NameFoo, PyInt(0)>>,
      <<NameR, PyInt(0)>>, <<NameParamList, PyInt(0)>> }

\* glob(expr)
GlobInputs ==
    { <<"a", "*">>, <<"?", "1">>, <<"[", "!", "a", "]", "*">>, <<"*">>,
      NameZz }

\* self.<name>
GetAttrInputs == {NameA1, NameB1, NamePop, NameParamList}

\* Plotter(sampling_steps).sample_pdf(pdf, <the parameter stored under a
\* name>, norm): <<name, <<sampling_steps, norm, the display curve of pdf>>>>
SamplePdfInputs ==
    ({NameA1} \X { <<3, None, Rise>> })
    \cup
    ({NameB1} \X
     { <<3, None, Rise>>, <<3, PyInt(2), Rise>>, <<3, PyInt(2), Flat0>>,
       <<2, PyInt(2), Flat1>>, <<1, None, Flat1>>, <<1, PyInt(2), Flat1>>,
       <<0, None, Flat1>>, <<0, PyInt(2), Flat1>>, <<0 - 1, None, Flat1>> })

Init ==
    /\ dict = SetAttr(<<>>, NameParamList, NameSet({})).d
    /\ op = [name |-> "__init__"]
    /\ ret = None
    /\ err = "none"
    /\ warned = <<>>
    /\ calls = <<>>
    /\ pre = <<>>
    /\ steps = 0

Called(o) ==
    /\ steps < MaxSteps
    /\ op' = o
    /\ pre' = dict
    /\ steps' = steps + 1

add_param ==
    \E in \in AddParamInputs :
        LET res == AddParamOp(dict, in[1], in[2])
        IN  /\ Called([name |-> "add_param", key |-> in[1], args |-> in[2]])
            /\ dict' = res.d
            /\ err' = res.err
            /\ warned' = res.warned
            /\ ret' = None
            /\ calls' = <<>>

setattr ==
    \E in \in SetAttrInputs(dict) :
        LET res == SetAttr(dict, in[1], in[2])
        IN  /\ Called([name |-> "__setattr__", key |-> in[1], value |-> in[2]])
            /\ dict' = res.d
            /\ err' = res.err
            /\ warned' = res.warned
            /\ ret' = None
            /\ calls' = <<>>

expand_params ==
    \E in \in ExpandInputs :
        LET res == ExpandParamsOp(dict, in[1], in[2], in[3])
        IN  /\ Called([name |-> "expand_params", template |-> in[1],
                       args |-> in[2], kwargs |-> in[3]])
            /\ dict' = res.d
            /\ err' = res.err
            /\ warned' = res.warned
            /\ ret' = None
            /\ calls' = res.calls

add_observable ==
    \E in \in AddObservableInputs :
        LET res == AddObservableOp(dict, in[1], in[2], in[3])
        IN  /\ Called([name |-> "add_observable", key |-> in[1],
                       args |-> in[2], values |-> in[3]])
            /\ dict' = res.d
            /\ err' = res.err
            /\ warned' = res.warned
            /\ ret' = None
            /\ calls' = res.calls

add_category ==
    \E in \in AddCategoryInputs :
        LET res == AddCategoryOp(dict, in[1], in[2])
        IN  /\ Called([name |-> "add_category", key |-> in[1],
                       values |-> in[2]])
            /\ dict' = res.d
            /\ err' = res.err
            /\ warned' = res.warned
            /\ ret' = None
            /\ calls' = <<>>

pop ==
    \E in \in PopInputs :
        LET res == PopOp(dict, in[1], in[2])
        IN  /\ Called([name |-> "pop", key |-> in[1], default |-> in[2]])
            /\ dict' = res.d
            /\ err' = res.err
            /\ ret' = res.ret
            /\ warned' = <<>>
            /\ calls' = <<>>

\* The list is built in the iteration order of the set, which the language
\* leaves open: every order is a possible result.
glob ==
    \E expr \in GlobInputs :
        /\ Called([name |-> "glob", expr |-> expr])
        /\ UNCHANGED dict
        /\ warned' = <<>>
        /\ calls' = <<>>
        /\ IF NameParamList \notin DOMAIN dict
           THEN err' = "AttributeError" /\ ret' = None
           ELSE IF ~Iterable(dict[NameParamList])
           THEN err' = "TypeError" /\ ret' = None
           ELSE IF GlobErrors(dict, expr) # {}
           THEN err' \in GlobErrors(dict, expr) /\ ret' = None
           ELSE /\ err' = "none"
                /\ \E o \in Orders(GlobMatched(dict, expr)) :
                       ret' = GlobList(dict, expr, o)

r_property ==
    LET res == PropR(dict)
    IN  /\ Called([name |-> "r"])
        /\ UNCHANGED dict
        /\ err' = res.err
        /\ ret' = IF res.err = "none" THEN res.val ELSE None
        /\ warned' = <<>>
        /\ calls' = <<>>

repr ==
    LET res == ReprOp(dict)
    IN  /\ Called([name |-> "__repr__"])
        /\ dict' = res.d
        /\ err' = res.err
        /\ ret' = res.ret
        /\ warned' = <<>>
        /\ calls' = <<>>

\* self.<name>, read
getattr ==
    \E name \in GetAttrInputs :
        LET res == GetAttr(dict, name)
        IN  /\ Called([name |-> "getattr", key |-> name])
            /\ UNCHANGED dict
            /\ err' = res.err
            /\ ret' = IF res.err = "none" THEN res.val ELSE None
            /\ warned' = <<>>
            /\ calls' = <<>>

\* The caller passes the object it reads from the collection: the name is
\* one that is stored.
sample_pdf ==
    \E in \in SamplePdfInputs :
        /\ in[1] \in DOMAIN dict
        /\ LET res == SamplePdfOp(dict, in[1], in[2][1], in[2][2], in[2][3])
           IN  /\ Called([name |-> "sample_pdf", key |-> in[1],
                          sampling_steps |-> in[2][1], norm |-> in[2][2],
                          curve |-> in[2][3]])
               /\ dict' = res.d
               /\ err' = res.err
               /\ ret' = res.ret
               /\ warned' = <<>>
               /\ calls' = res.calls

Next ==
    \/ add_param
    \/ setattr
    \/ expand_params
    \/ add_observable
    \/ add_category
    \/ pop
    \/ glob
    \/ r_property
    \/ repr
    \/ getattr
    \/ sample_pdf

Spec == Init /\ [][Next]_vars

-----------------------------------------------------------------------------
(* Notions the properties below are stated in *)

\* The attribute param_list still holds the set made by __init__.
HasParamList(d) ==
    NameParamList \in DOMAIN d /\ d[NameParamList].kind = "set"

\* The tracked names: the members of self.param_list.
Tracked(d) == IF HasParamList(d) THEN d[NameParamList].names ELSE {}

\* A stored parameter: a scalar (RealVar) or a categorical (RooCategory).
IsParameter(v) == v.kind \in {"RealVar", "RooCategory"}

\* A numeric value of any kind: plain, boolean or a library scalar.
IsNumeric(v) == v.kind \in {"int", "float", "bool", "numpy.float64"}

\* The name has an attribute before any is stored: a member of the class.
IsClassMember(n) == n \in ClassAttrs \/ n = NameR

\* The tracked names and the stored attributes of d agree.
InSync(d) ==
    /\ HasParamList(d)
    /\ \A n \in Tracked(d) : n \in DOMAIN d /\ IsParameter(d[n])
    /\ \A n \in DOMAIN d : IsParameter(d[n]) => n \in Tracked(d)

\* The engine primitive of a stored parameter.
PrimitiveOf(v) == IF v.kind = "RealVar" THEN VarOf(v) ELSE v

-----------------------------------------------------------------------------
(* C1 *)

\* C1: in every reachable state the tracked-name set and the stored
\* attributes agree: every tracked name resolves to a stored parameter, and
\* no stored parameter lacks a tracked name.
C1_TrackedAndStoredAgree == InSync(dict)

-----------------------------------------------------------------------------
(* C2 *)

\* C2: assigning a numeric value of any kind to a name that denotes a stored
\* parameter sets that parameter's value in place: the call returns, the
\* stored entity is the one that was there with its value set, and nothing
\* else changes.
C2_NumericAssignInPlace ==
    (/\ op.name = "__setattr__"
     /\ IsNumeric(op.value)
     /\ op.key \in DOMAIN pre
     /\ IsParameter(pre[op.key]))
    => /\ err = "none"
       /\ pre[op.key].kind = "RealVar"
       /\ dict = [pre EXCEPT ![op.key] = SetVal(@, op.value.v)]

-----------------------------------------------------------------------------
(* C3 *)

-----------------------------------------------------------------------------
(* C4 *)

\* C4: assigning a non-numeric value to a name that already exists replaces
\* the stored value, prints a warning and does not fail; and a warning is
\* printed in no other case.
C4_WarnExactlyOnReplace ==
    op.name = "__setattr__" =>
        LET existed == op.key \in DOMAIN pre \/ IsClassMember(op.key)
        IN  /\ (existed /\ ~IsNumeric(op.value))
                => /\ err = "none"
                   /\ op.key \in DOMAIN dict
                   /\ dict[op.key] = op.value
                   /\ warned = <<op.key>>
            /\ warned # <<>> => (existed /\ ~IsNumeric(op.value))

-----------------------------------------------------------------------------
(* C5 *)

\* C5: on a collection whose tracked names and storage agree, pop of a
\* tracked key returns the entity stored under it, removes it from the
\* tracked names and from storage and shrinks the tracked-name count by one;
\* pop of any other key returns the default, raises nothing and leaves the
\* collection unchanged.
C5_PopTrackedOrDefault ==
    (op.name = "pop" /\ InSync(pre)) =>
        /\ err = "none"
        /\ IF op.key \in Tracked(pre)
           THEN /\ op.key \in DOMAIN pre
                /\ ret = pre[op.key]
                /\ op.key \notin DOMAIN dict
                /\ Tracked(dict) = Tracked(pre) \ {op.key}
                /\ Cardinality(Tracked(dict)) = Cardinality(Tracked(pre)) - 1
           ELSE /\ ret = op.default
                /\ dict = pre

-----------------------------------------------------------------------------
(* C6 *)

\* C6: in every state in which each tracked name has a stored value (also
\* after a tracked name has been overwritten by attribute assignment), the
\* view r returns has exactly the tracked names, each bound to the engine
\* primitive of the entity stored under it.
C6_ExportExactlyTracked ==
    (/\ op.name = "r"
     /\ HasParamList(pre)
     /\ \A n \in Tracked(pre) : n \in DOMAIN pre) =>
        /\ err = "none"
        /\ ret.kind = "bag"
        /\ DOMAIN ret.attrs = Tracked(pre)
        /\ \A n \in Tracked(pre) :
              n \in DOMAIN pre /\ ret.attrs[n] = PrimitiveOf(pre[n])

-----------------------------------------------------------------------------
(* C7 *)

\* The number of combinations of the axes m, m + 1, ...: the product of
\* their lengths.
RECURSIVE Combinations(_, _)
Combinations(kwargs, m) ==
    IF m > Len(kwargs) THEN 1
    ELSE Len(kwargs[m][2]) * Combinations(kwargs, m + 1)

\* The p-th combination in product order: the later axes vary fastest.
CombinationAt(kwargs, p) ==
    [m \in 1..Len(kwargs) |->
        kwargs[m][2][(((p - 1) \div Combinations(kwargs, m + 1))
                        % Len(kwargs[m][2])) + 1]]

AxisNames(kwargs) == [m \in 1..Len(kwargs) |-> kwargs[m][1]]

\* The names expand_params passed to add_param.
CalledNames == {calls[p][1] : p \in 1..Len(calls)}

\* An expand_params call that returned, param_list being the name set before
\* and after it.
ExpandReturned ==
    /\ op.name = "expand_params"
    /\ err = "none"
    /\ HasParamList(pre)
    /\ HasParamList(dict)

\* C7 as stated: expand_params creates one distinct tracked scalar per
\* element of the Cartesian product, so that the tracked-name count grows by
\* the product of the axis lengths when none of the names was tracked before.
C7_OneDistinctScalarPerCombination ==
    ExpandReturned =>
        /\ Len(calls) = Combinations(op.kwargs, 1)
        /\ \A p, q \in 1..Len(calls) : p # q => calls[p][1] # calls[q][1]
        /\ CalledNames \cap Tracked(pre) = {}
            => Cardinality(Tracked(dict))
                 = Cardinality(Tracked(pre)) + Combinations(op.kwargs, 1)

\* C7, amended: expand_params calls add_param once per element of the
\* Cartesian product, in product order (later axes varying fastest), with the
\* template's substitution as the name and the same trailing arguments.
\* Combinations whose substitutions coincide name one parameter, so when the
\* call returns (param_list still being the name set) the tracked names are
\* those tracked before and the distinct names substituted, each a stored
\* scalar: the count grows by the number of distinct new names.
C7_OneCallPerCombination ==
    ExpandReturned =>
        /\ Len(calls) = Combinations(op.kwargs, 1)
        /\ \A p \in 1..Len(calls) :
              calls[p] = <<Format(op.template, AxisNames(op.kwargs),
                                  CombinationAt(op.kwargs, p)).s, op.args>>
        /\ op.template = <<"{", "k", "}", "{", "i", "}">>
            => [p \in 1..Len(calls) |-> calls[p][1]]
                 = <<NameA1, NameA2, NameB1, <<"b", "2">>>>
        /\ Tracked(dict) = Tracked(pre) \cup CalledNames
        /\ \A n \in CalledNames :
              /\ n \in DOMAIN dict
              /\ dict[n].kind = "RealVar"
              /\ dict[n].name = n
        /\ Cardinality(Tracked(dict))
             = Cardinality(Tracked(pre))
               + Cardinality(CalledNames \ Tracked(pre))

\* An expansion over two axes has returned with fewer names than
\* combinations.
C7_Witness ==
    /\ ExpandReturned
    /\ Len(op.kwargs) = 2
    /\ Len(calls) = 4
    /\ Cardinality(CalledNames) = 2
    /\ Cardinality(Tracked(dict)) = Cardinality(Tracked(pre)) + 2

-----------------------------------------------------------------------------
(* C8 *)

\* C8: add_observable raises ConfigurationError if and only if values is
\* absent and no construction arguments are given, and when it does the
\* collection is as it was.
C8_ConfigurationErrorIffNeither ==
    op.name = "add_observable" =>
        /\ err = "ConfigurationError"
             <=> (op.values = None /\ Len(op.args) = 0)
        /\ err = "ConfigurationError" => dict = pre

\* add_observable has raised ConfigurationError on a collection that tracks
\* a name.
C8_Witness ==
    /\ op.name = "add_observable"
    /\ err = "ConfigurationError"
    /\ Tracked(pre) # {}
    /\ dict = pre

-----------------------------------------------------------------------------
(* C9 *)

\* C9 as stated: add_param with a name and no construction arguments fails
\* with ConfigurationError.
C9_AddParamNoArgsConfigurationError ==
    (op.name = "add_param" /\ Len(op.args) = 0)
        => err = "ConfigurationError"

\* C9, amended: add_param with a name and no construction arguments fails
\* with the error of the engine's constructor (a TypeError: no overload
\* takes a name and a title alone), not with ConfigurationError, and leaves
\* the collection as it was; ConfigurationError is raised by add_observable
\* alone, when values is absent and no construction arguments are given.
C9_AddParamNoArgsEngineError ==
    /\ (op.name = "add_param" /\ Len(op.args) = 0)
          => (err = "TypeError" /\ dict = pre)
    /\ err = "ConfigurationError"
          => /\ op.name = "add_observable"
             /\ op.values = None
             /\ Len(op.args) = 0

\* add_param without construction arguments has failed on a collection that
\* tracks a name.
C9_Witness ==
    /\ op.name = "add_param"
    /\ Len(op.args) = 0
    /\ err = "TypeError"
    /\ Tracked(pre) # {}

-----------------------------------------------------------------------------
(* C10 *)

\* C10: in every reachable state glob returns, without raising, exactly one
\* entry per tracked name that matches the pattern, the entity stored under
\* that name, and nothing else; the empty list when no tracked name matches.
C10_GlobOneEntryPerMatch ==
    op.name = "glob" =>
        /\ err = "none"
        /\ ret.kind = "list"
        /\ LET matching == {n \in Tracked(pre) : FnMatch(n, op.expr)}
           IN  /\ Len(ret.items) = Cardinality(matching)
               /\ \E o \in Orders(matching) :
                     \A i \in 1..Len(ret.items) :
                         o[i] \in DOMAIN pre /\ ret.items[i] = pre[o[i]]

-----------------------------------------------------------------------------
(* C11 *)

\* The line the rendering is said to have for a stored parameter: the name,
\* then const for a constant scalar, min and max for any other scalar, the
\* name alone for a categorical parameter.
C11_Line(n, v) ==
    <<"\n">> \o n
    \o (IF v.kind = "RooCategory" THEN <<>>
        ELSE IF v.const THEN <<"\t", "c", "o", "n", "s", "t">>
        ELSE <<"\t">> \o FormatG2(v.min) \o <<"\t">> \o FormatG2(v.max))

\* C11: on a collection whose tracked names and storage agree, __repr__
\* returns the text that states the number of tracked names and then lists
\* every tracked name once, in sorted order, a scalar annotated with const
\* when it is constant and with its min and max otherwise, a categorical
\* parameter by its name alone.
C11_RenderingAnnotatesScalars ==
    (op.name = "__repr__" /\ InSync(pre)) =>
        LET names == Sorted(Tracked(pre))
        IN  /\ err = "none"
            /\ ret = PyStr(ReprHeader(Cardinality(Tracked(pre)))
                           \o Flatten([k \in 1..Len(names) |->
                                         C11_Line(names[k], pre[names[k]])]))

-----------------------------------------------------------------------------
(* Notions of the sampling properties *)

\* sample_pdf was called on a stored scalar with a number of samples that
\* linspace accepts: the call reaches its loop.
SampledScalar ==
    /\ op.name = "sample_pdf"
    /\ pre[op.key].kind \in {"RealVar", "RooRealVar"}
    /\ op.sampling_steps >= 0

\* The sample points and the curve's values at them, from the arguments of
\* the call: point i of n is min + (i - 1) * (max - min) / (n - 1).
SamplePoint(i) ==
    LET lo == pre[op.key].min
        hi == pre[op.key].max
        n  == op.sampling_steps
    IN  IF n = 1 THEN lo ELSE (lo * (n - i) + hi * (i - 1)) \div (n - 1)
CurveAt(i) == Interpolate(op.curve, SamplePoint(i), pre[op.key].min)

\* Twice the trapezoidal integral of the curve over the sample points.
RECURSIVE SampledIntegral2(_)
SampledIntegral2(i) ==
    IF i >= op.sampling_steps THEN 0
    ELSE (SamplePoint(i + 1) - SamplePoint(i)) * (CurveAt(i) + CurveAt(i + 1))
         + SampledIntegral2(i + 1)

\* The calls of the engine's curve-plotting primitive among the calls made.
PlotOnCalls == {i \in 1..Len(calls) : calls[i] = <<"plotOn">>}

-----------------------------------------------------------------------------
(* C12 *)

\* C12: when sample_pdf is called with a normalisation target, on a scalar
\* of a collection whose tracked names and storage agree and with at least
\* one sample point, and the trapezoidal integral of the sampled curve is
\* zero, the call ends in an error and returns no result.
C12_ZeroIntegralRaises ==
    (/\ SampledScalar
     /\ InSync(pre)
     /\ op.sampling_steps >= 1
     /\ op.norm # None
     /\ SampledIntegral2(1) = 0)
    => (err # "none" /\ ret = None)

-----------------------------------------------------------------------------
(* C13 *)

\* C13: after sample_pdf has returned, the sampled parameter is the object
\* it was, with the same min and max; for a sample count of at least one its
\* value is the last sample point (the max for a count of at least two) and
\* not the value it had before the call; for a count of zero the value is
\* unchanged.  Nothing else in the collection changes.
C13_ValueLeftAtLastPoint ==
    (op.name = "sample_pdf" /\ err = "none") =>
        LET n      == op.sampling_steps
            before == pre[op.key]
            last   == IF n = 0 THEN before.val
                      ELSE IF n = 1 THEN before.min
                      ELSE before.max
        IN  /\ dict = [pre EXCEPT ![op.key].val = last]
            /\ dict[op.key].min = before.min
            /\ dict[op.key].max = before.max
            /\ n >= 1 => dict[op.key].val = ret.xs[n]

\* A sampling over three points has returned and left the parameter at its
\* max, which is not the value it had.
C13_Witness ==
    /\ op.name = "sample_pdf"
    /\ err = "none"
    /\ op.sampling_steps = 3
    /\ dict[op.key].val = pre[op.key].max
    /\ dict[op.key].val # pre[op.key].val

-----------------------------------------------------------------------------
(* C17 *)

\* Two finite numbers are equal.
SameNumber(y, v) == IsFinite(y) /\ y.num = v * y.den

\* What C17 says of every call that returns, whatever the target: the curve
\* is obtained once, before the first point is evaluated; xs and ys have the
\* length of the sample count; the first x is the min and, for two points or
\* more, the last x is the max.
C17_CurveOnceAndPoints ==
    LET n == op.sampling_steps
    IN  /\ PlotOnCalls = {1}
        /\ Len(calls) = 1 + 2 * n
        /\ \A i \in 1..n : /\ calls[2 * i] = <<"setVal", SamplePoint(i)>>
                           /\ calls[2 * i + 1] = <<"interpolate", SamplePoint(i)>>
        /\ ret.kind = "arrays"
        /\ Len(ret.xs) = n
        /\ Len(ret.ys) = n
        /\ \A i \in 1..n : ret.xs[i] = SamplePoint(i)
        /\ n >= 1 => ret.xs[1] = pre[op.key].min
        /\ n >= 2 => ret.xs[n] = pre[op.key].max

\* C17 as stated: sample_pdf obtains the curve once, before the first point,
\* and returns xs and ys of the length of the sample count, the i-th y being
\* the curve interpolated at the i-th x.  (Stated for a collection whose
\* tracked names and storage agree; the calls whose target meets a zero
\* integral, the case of C12, are left aside.)
C17_YsAreTheCurve ==
    (/\ op.name = "sample_pdf"
     /\ err = "none"
     /\ InSync(pre)
     /\ (op.norm = None \/ SampledIntegral2(1) # 0)) =>
        /\ C17_CurveOnceAndPoints
        /\ \A i \in 1..op.sampling_steps : SameNumber(ret.ys[i], CurveAt(i))

\* C17, amended: as stated when no normalisation target is given.  With a
\* target, the i-th y is the curve interpolated at the i-th x, divided by the
\* trapezoidal integral of the sampled curve and multiplied by the target;
\* when that integral is zero the call still returns and every y is infinite
\* or not a number.
C17_YsAreTheCurveScaled ==
    (op.name = "sample_pdf" /\ err = "none") =>
        /\ C17_CurveOnceAndPoints
        /\ \A i \in 1..op.sampling_steps :
              IF op.norm = None THEN ret.ys[i] = Float(CurveAt(i), 1)
              ELSE IF SampledIntegral2(1) = 0 THEN ~IsFinite(ret.ys[i])
              ELSE /\ IsFinite(ret.ys[i])
                   /\ ret.ys[i].num * SampledIntegral2(1)
                        = 2 * CurveAt(i) * op.norm.v * ret.ys[i].den

\* A sampling over three points with a target has returned ys that are not
\* the curve's values.
C17_Witness ==
    /\ op.name = "sample_pdf"
    /\ err = "none"
    /\ op.sampling_steps = 3
    /\ op.norm # None
    /\ SampledIntegral2(1) # 0
    /\ \E i \in 1..3 : ~SameNumber(ret.ys[i], CurveAt(i))
    /\ ret.xs[3] = pre[op.key].max

-----------------------------------------------------------------------------
(* C14 *)

\* C14: on a collection whose tracked names and storage agree, add_param
\* with a name that is not yet a parameter (be it the name of a member of the
\* collection itself) and a value, alone or within the bounds given with it,
\* returns, and the lookup of the name then returns the newly created scalar
\* with that name, value and bounds; the name is tracked.
C14_AddThenLookup ==
    (/\ op.name = "add_param"
     /\ InSync(pre)
     /\ op.key \notin Tracked(pre)
     /\ \/ Len(op.args) = 1
        \/ Len(op.args) = 3 /\ op.args[2] <= op.args[1]
                            /\ op.args[1] <= op.args[3])
    => /\ err = "none"
       /\ LET g == GetAttr(dict, op.key)
          IN  /\ g.err = "none"
              /\ g.val.kind = "RealVar"
              /\ g.val.id \notin UsedIds(pre)
              /\ g.val.name = op.key
              /\ g.val.val = op.args[1]
              /\ Len(op.args) = 3 => /\ g.val.min = op.args[2]
                                     /\ g.val.max = op.args[3]
       /\ HasParamList(dict)
       /\ op.key \in Tracked(dict)

-----------------------------------------------------------------------------
(* C15 *)

\* m is the least (greatest) of the numbers of a non-empty list.
IsMinOf(m, xs) ==
    (\E i \in 1..Len(xs) : xs[i] = m) /\ (\A i \in 1..Len(xs) : m <= xs[i])
IsMaxOf(m, xs) ==
    (\E i \in 1..Len(xs) : xs[i] = m) /\ (\A i \in 1..Len(xs) : m >= xs[i])

\* add_observable has returned and stored a scalar under the name.
ObservableAdded ==
    /\ op.name = "add_observable"
    /\ err = "none"
    /\ op.key \in DOMAIN dict
    /\ dict[op.key].kind = "RealVar"
    /\ dict[op.key].id \notin UsedIds(pre)

\* C15 as stated: add_observable derives the bounds from the sample only
\* when values is given and no construction arguments are; when construction
\* arguments are given (with no sample or a non-empty one), the scalar is
\* constructed from them.
C15_ArgsBeforeSample ==
    (op.name = "add_observable" /\ InSync(pre)) =>
        /\ (op.values # None /\ Len(op.values.items) > 0 /\ Len(op.args) = 0)
              => /\ ObservableAdded
                 /\ IsMinOf(dict[op.key].min, op.values.items)
                 /\ IsMaxOf(dict[op.key].max, op.values.items)
        /\ (Len(op.args) = 1
            /\ (op.values = None \/ Len(op.values.items) > 0))
              => /\ ObservableAdded
                 /\ calls = << <<op.key, op.args>> >>
                 /\ dict[op.key].val = op.args[1]
                 /\ dict[op.key].const

\* C15, amended: add_observable derives the bounds from the sample whenever
\* values is given, with or without construction arguments, which it then
\* ignores: it calls add_param(name, min, max) with the least and the
\* greatest value of the sample, and the scalar created has these bounds and
\* is not constant (an empty sample is a ValueError, and nothing changes).
\* The construction arguments are used only when values is absent: then it
\* calls add_param(name, *args).
C15_SampleBeforeArgs ==
    op.name = "add_observable" =>
        /\ (op.values # None /\ Len(op.values.items) > 0)
              => /\ Len(calls) = 1
                 /\ calls[1][1] = op.key
                 /\ Len(calls[1][2]) = 2
                 /\ IsMinOf(calls[1][2][1], op.values.items)
                 /\ IsMaxOf(calls[1][2][2], op.values.items)
                 /\ err = "none"
                      => /\ ObservableAdded
                         /\ dict[op.key].min = calls[1][2][1]
                         /\ dict[op.key].max = calls[1][2][2]
                         /\ ~dict[op.key].const
                 /\ InSync(pre) => err = "none"
        /\ (op.values # None /\ Len(op.values.items) = 0)
              => (err = "ValueError" /\ dict = pre /\ calls = <<>>)
        /\ (op.values = None /\ Len(op.args) > 0)
              => /\ calls = << <<op.key, op.args>> >>
                 /\ (err = "none" /\ Len(op.args) = 1)
                      => /\ ObservableAdded
                         /\ dict[op.key].val = op.args[1]
                         /\ dict[op.key].const
                 /\ (InSync(pre) /\ Len(op.args) = 1) => err = "none"

\* add_observable was given both construction arguments and a sample, and
\* has created a scalar bounded by the sample.
C15_Witness ==
    /\ ObservableAdded
    /\ Len(op.args) = 1
    /\ op.values # None
    /\ dict[op.key].min = 1
    /\ dict[op.key].max = 5
    /\ ~dict[op.key].const

-----------------------------------------------------------------------------
(* C16 *)

\* C16: a tracked name stays tracked until it is popped: on a collection
\* whose tracked names and storage agree, an operation other than pop removes
\* no name from the tracked names, and pop removes at most the name it is
\* given.
C16_TrackedUntilPopped ==
    (steps > 0 /\ InSync(pre)) =>
        IF op.name = "pop"
        THEN Tracked(pre) \ {op.key} \subseteq Tracked(dict)
        ELSE Tracked(pre) \subseteq Tracked(dict)

-----------------------------------------------------------------------------
(* C18 *)

\* C18: the read operations (attribute lookup, glob, r, __repr__) leave the
\* collection as it was, whether they return or raise: the tracked names,
\* the entity stored under every name and every value and bound; and the
\* view r has returned is the view a second r returns right after it.
C18_ReadsLeaveCollection ==
    op.name \in {"getattr", "glob", "r", "__repr__"} =>
        /\ dict = pre
        /\ Tracked(dict) = Tracked(pre)
        /\ (op.name = "r" /\ err = "none")
              => LET again == PropR(dict)
                 IN  again.err = "none" /\ again.val = ret

\* __repr__ has rendered a collection that tracks a name, and the
\* collection is as it was.
C18_Witness ==
    /\ op.name = "__repr__"
    /\ err = "none"
    /\ Tracked(pre) # {}
    /\ dict = pre

-----------------------------------------------------------------------------
(* C19 *)

\* The engine has no constructor for the numbers given after the name.
C19_NoConstructor(args) == Len(args) \notin {1, 2, 3}

\* The engine refuses one of the level definitions of add_category: two of
\* the distinct values have the same label or the same code.
C19_LevelRefused(values) ==
    \E i, j \in 1..Len(values) :
        /\ values[i] # values[j]
        /\ IntOf(values[i]).err = "none"
        /\ IntOf(values[j]).err = "none"
        /\ \/ StrOf(values[i]) = StrOf(values[j])
           \/ IntOf(values[i]).v = IntOf(values[j]).v

\* The engine rejects the construction the call asks for.
C19_EngineRejects ==
    \/ op.name = "add_param" /\ C19_NoConstructor(op.args)
    \/ /\ op.name = "add_observable"
       /\ op.values = None
       /\ Len(op.args) > 0
       /\ C19_NoConstructor(op.args)
    \/ /\ op.name = "expand_params"
       /\ C19_NoConstructor(op.args)
       /\ Len(calls) > 0
    \/ /\ op.name = "add_category"
       /\ \A i \in 1..Len(op.values) : IntOf(op.values[i]).err = "none"
       /\ C19_LevelRefused(op.values)

\* C19: when the engine rejects the construction of a parameter, the call
\* raises and the collection is left exactly as it was before the call.
C19_RejectionLeavesCollection ==
    (C19_EngineRejects /\ InSync(pre)) => (err # "none" /\ dict = pre)

====
